---- MODULE Spec2Model ----
(***************************************************************************)
(* Model of scripts/fetch_weather.py: one straight-line pipeline            *)
(*   makedirs -> requests.get -> save raw JSON -> row loop -> dropna/sort   *)
(*   -> to_csv                                                              *)
(* Numbers are integers in thousandths (5.26 is 5260).                      *)
(***************************************************************************)
EXTENDS Integers, Sequences, FiniteSets, TLC

VARIABLES
    pc,        \* the statement the run is at, or "done" / "aborted"
    apiDoc,    \* the document the API serves
    resp,      \* outcome of requests.get of this run ("none" before the call)
    raw,       \* <<>> before line 55, <<document>> after
    rows,      \* the list built by the loop of lines 78-93
    df,        \* the DataFrame of lines 96-99
    error,     \* "none", or the exception that ended the run
    dirExists, \* DATA_DIR exists
    rawFile,   \* data/cork_raw.json
    csvFile,   \* data/cork_clean.csv
    log,       \* the statements this run has begun, in order
    written,   \* the files this run has written completely
    startRaw,  \* rawFile when this run began
    startCsv,  \* csvFile when this run began
    prev       \* how the previous run went

vars == <<pc, apiDoc, resp, raw, rows, df, error, dirExists, rawFile, csvFile,
          log, written, startRaw, startCsv, prev>>

\* ------------------------------------------------------------------ bounds
MaxLen == 2

\* ------------------------------------------------------------ input values
T0 == "2024-01-01T00:00"
T1 == "2024-01-01T01:00"
BadTime == "not-a-date"
BadMonth == "2024-13-01T00:00"          \* fromisoformat rejects month 13
TimeVals == {T0, T1, BadTime, BadMonth}

Num(v) == [kind |-> "num", v |-> v]
Null == [kind |-> "null", v |-> 0]
NaN == [kind |-> "nan", v |-> 0]
Text == [kind |-> "str", v |-> 0]          \* a non-numeric string such as "n/a"
TempVals == {Num(5260), Null, NaN, Text}

PrecipAt(i) == Num(CASE i = 1 -> 0 [] i = 2 -> 100 [] OTHER -> 125)
WindAt(i) == Num(CASE i = 1 -> 3333 [] i = 2 -> 4000 [] OTHER -> 2678)

SeqsUpTo(S, n) == UNION {[1..k -> S] : k \in 0..n}
PrecipSeqs(n) == {[i \in 1..k |-> PrecipAt(i)] : k \in 0..n}
WindSeqs(n) == {[i \in 1..k |-> WindAt(i)] : k \in 0..n}

Absent == [present |-> FALSE, values |-> <<>>]
Field(S) == {Absent} \cup {[present |-> TRUE, values |-> s] : s \in S}

NoHourlyDoc ==
    [hourly |-> FALSE, time |-> Absent, temperature_2m |-> Absent,
     precipitation |-> Absent, wind_speed_10m |-> Absent]

Docs(n) ==
    {NoHourlyDoc} \cup
    {[hourly |-> TRUE, time |-> t, temperature_2m |-> a,
      precipitation |-> p, wind_speed_10m |-> w] :
        t \in Field(SeqsUpTo(TimeVals, n)),
        a \in Field(SeqsUpTo(TempVals, n)),
        p \in Field(PrecipSeqs(n)),
        w \in Field(WindSeqs(n))}

Present(s) == [present |-> TRUE, values |-> s]
Doc(t, a, p, w) ==
    [hourly |-> TRUE, time |-> Present(t), temperature_2m |-> Present(a),
     precipitation |-> Present(p), wind_speed_10m |-> Present(w)]

\* The response of the scenario of the documentation, in API order.
ScenarioDoc ==
    Doc(<<T0, T1>>, <<Num(5000), Num(5260)>>, <<Num(0), Num(100)>>,
        <<Num(3333), Num(4000)>>)

\* The documents the runs of Spec fetch: one per way a run can go.
SampleDocs ==
    { ScenarioDoc,
      NoHourlyDoc,
      Doc(<<T1, T0>>, <<Num(5260), NaN>>, <<Num(0), Num(100)>>, <<Num(3333), Num(4000)>>),
      Doc(<<T0>>, <<NaN>>, <<Num(0)>>, <<Num(3333)>>),
      Doc(<<T0>>, <<Null>>, <<Num(0)>>, <<Num(3333)>>),
      Doc(<<T0>>, <<Text>>, <<Num(0)>>, <<Num(3333)>>),
      Doc(<<T0, T1>>, <<Num(5260)>>, <<Num(0), Num(100)>>, <<Num(3333), Num(4000)>>),
      Doc(<<T0, BadTime>>, <<Num(5000), Num(5260)>>, <<Num(0), Num(100)>>,
          <<Num(3333), Num(4000)>>),
      Doc(<<BadTime>>, <<Num(5260)>>, <<Num(0)>>, <<Num(3333)>>) }

\* ------------------------------------------------- lines 71-75: extraction
\* raw.get("hourly", {}).get(key, []): an absent key is the empty list.
HourlyGet(doc, key) ==
    IF doc.hourly /\ doc[key].present THEN doc[key].values ELSE <<>>

\* ------------------------------------------------ lines 82-85: timestamps
\* datetime.fromisoformat succeeds on these strings (minutes since T0).
IsoMinute == (T0 :> 0) @@ (T1 :> 60)

\* A timestamp cell: a datetime, or the original string kept by the except.
ParseTime(s) ==
    IF s \in DOMAIN IsoMinute
        THEN [kind |-> "datetime", minute |-> IsoMinute[s], text |-> ""]
        ELSE [kind |-> "str", minute |-> 0, text |-> s]

\* ------------------------------------------------ lines 90-92: coercion
\* float(x): None raises TypeError, a non-numeric string ValueError.
FloatError(x) ==
    CASE x.kind = "null" -> "TypeError"
      [] x.kind = "str" -> "ValueError"
      [] OTHER -> "none"

Round2Unrounded(v) == v

\* round(x, 2) of a float whose thousandths are v: to the nearest hundredth;
\* an exact tie (0.125 is exact in binary) goes to the even hundredth.
Round2(v) ==
    LET r == v % 10
        base == v - r
    IN  IF r < 5 THEN base
        ELSE IF r > 5 THEN base + 10
        ELSE IF (base \div 10) % 2 = 0 THEN base ELSE base + 10

\* round(float(x), 2) for an x float accepts; round(nan, 2) is nan.
Coerce(x) ==
    IF x.kind = "nan" THEN [nan |-> TRUE, v |-> 0]
    ELSE [nan |-> FALSE, v |-> Round2(x.v)]

\* The first exception of the row built at index i, in evaluation order:
\* temps[i], float(temps[i]), precip[i], float(precip[i]), wind[i], float(wind[i]).
RowError(temps, precip, wind, i) ==
    IF i > Len(temps) THEN "IndexError"
    ELSE IF FloatError(temps[i]) # "none" THEN FloatError(temps[i])
    ELSE IF i > Len(precip) THEN "IndexError"
    ELSE IF FloatError(precip[i]) # "none" THEN FloatError(precip[i])
    ELSE IF i > Len(wind) THEN "IndexError"
    ELSE FloatError(wind[i])

MakeRow(times, temps, precip, wind, i) ==
    [timestamp |-> ParseTime(times[i]),
     temperature_c |-> Coerce(temps[i]),
     precipitation_mm |-> Coerce(precip[i]),
     wind_speed_mps |-> Coerce(wind[i])]

Min(a, b) == IF a < b THEN a ELSE b

LoopBoundShortest(times, temps, precip, wind) ==
    Min(Min(Len(times), Len(temps)), Min(Len(precip), Len(wind)))

\* range(len(times)): the time sequence alone bounds the loop.
LoopBound(times, temps, precip, wind) == Len(times)

\* lines 78-93: the loop from index i on, with the rows built so far.
RECURSIVE RowLoop(_, _, _, _, _, _)
RowLoop(times, temps, precip, wind, i, acc) ==
    IF i > LoopBound(times, temps, precip, wind)
        THEN [error |-> "none", rows |-> acc]
    ELSE IF RowError(temps, precip, wind, i) # "none"
        THEN [error |-> RowError(temps, precip, wind, i), rows |-> acc]
    ELSE RowLoop(times, temps, precip, wind, i + 1,
                 Append(acc, MakeRow(times, temps, precip, wind, i)))

\* lines 71-93 on a decoded document.
ExtractRows(doc) ==
    RowLoop(HourlyGet(doc, "time"), HourlyGet(doc, "temperature_2m"),
            HourlyGet(doc, "precipitation"), HourlyGet(doc, "wind_speed_10m"),
            1, <<>>)

\* ------------------------------------------------ lines 96-99: the table
Columns == <<"timestamp", "temperature_c", "precipitation_mm", "wind_speed_mps">>

\* pd.DataFrame(rows): a frame built from an empty list has no columns.
DataFrame(rs) == [columns |-> rs # <<>>, rows |-> rs]

HasNa(row) ==
    row.temperature_c.nan \/ row.precipitation_mm.nan \/ row.wind_speed_mps.nan

\* dropna(): the rows without a missing value, in their order.
DropNa(frame) ==
    [columns |-> frame.columns, rows |-> SelectSeq(frame.rows, LAMBDA r : ~HasNa(r))]

\* The order of Python strings among the strings kept as timestamps.
StrRank(s) ==
    CASE s = T0 -> 1
      [] s = T1 -> 2
      [] s = BadMonth -> 3
      [] OTHER -> 4

\* a < b for two timestamp cells of one kind.
TsLess(a, b) ==
    IF a.kind = "datetime" THEN a.minute < b.minute
    ELSE StrRank(a.text) < StrRank(b.text)

\* A column holding datetimes and strings: comparing them raises TypeError.
MixedKinds(rs) ==
    \E i, j \in 1..Len(rs) : rs[i].timestamp.kind # rs[j].timestamp.kind

RECURSIVE Insert(_, _)
Insert(sorted, r) ==
    IF sorted = <<>> THEN <<r>>
    ELSE IF TsLess(r.timestamp, sorted[Len(sorted)].timestamp)
        THEN Append(Insert(SubSeq(sorted, 1, Len(sorted) - 1), r), sorted[Len(sorted)])
    ELSE Append(sorted, r)

RECURSIVE InsertionSort(_, _)
InsertionSort(rs, k) ==
    IF k = 0 THEN <<>> ELSE Insert(InsertionSort(rs, k - 1), rs[k])

SortRowsUnsorted(rs) == rs

\* The argsort of sort_values on a column of one kind (insertion sort is what
\* numpy runs on arrays this short).
SortRows(rs) == InsertionSort(rs, Len(rs))

\* sort_values("timestamp"): KeyError without the column, TypeError when the
\* column mixes datetimes and strings.
SortValues(frame) ==
    IF ~frame.columns THEN [error |-> "KeyError", df |-> frame]
    ELSE IF MixedKinds(frame.rows) THEN [error |-> "TypeError", df |-> frame]
    ELSE [error |-> "none", df |-> [columns |-> TRUE, rows |-> SortRows(frame.rows)]]

\* lines 96-99.
CleanTable(rs) == SortValues(DropNa(DataFrame(rs)))

\* to_csv(index=False): the header line and one line per row.
CsvText(frame) == [header |-> Columns, rows |-> frame.rows]

\* -------------------------------------------------------------- the files
NoFile == [exists |-> FALSE, body |-> <<>>]
Truncated == [exists |-> TRUE, body |-> <<>>]

OpenAppend(file, content) == [exists |-> TRUE, body |-> Append(file.body, content)]

\* open(path, "w") and a complete write: the file holds this content only.
OpenWrite(file, content) == [exists |-> TRUE, body |-> <<content>>]

\* ------------------------------------------------------- the control flow
StepOrder == <<"makedirs", "get", "save_raw", "extract", "clean", "save_csv">>

StepAfterSkippingRaw(step) ==
    CASE step = "makedirs" -> "get"
      [] step = "get" -> "extract"
      [] step = "save_raw" -> "extract"
      [] step = "extract" -> "clean"
      [] step = "clean" -> "save_csv"
      [] OTHER -> "done"

\* The statement that follows in the script (lines 42, 49, 62, 78, 96, 103).
StepAfter(step) ==
    CASE step = "makedirs" -> "get"
      [] step = "get" -> "save_raw"
      [] step = "save_raw" -> "extract"
      [] step = "extract" -> "clean"
      [] step = "clean" -> "save_csv"
      [] OTHER -> "done"

\* A forecast with status 200; no answer (connection error or timeout); an
\* error status; a body that is not JSON.
FetchOutcomes == {"ok", "ConnectionError", "HTTPError", "JSONDecodeError"}

RaiseForStatusNever(outcome) == FALSE

\* resp.raise_for_status(): raises on an error status.
RaiseForStatus(outcome) == outcome = "HTTPError"

\* The body resp.json() decodes: the forecast, or the API's error object.
Body(outcome) == IF outcome = "ok" THEN apiDoc ELSE NoHourlyDoc

NoFrame == [columns |-> FALSE, rows |-> <<>>]
NoPrev == [ran |-> FALSE, resp |-> "none", fsError |-> FALSE]

\* The files a complete earlier run on the scenario response left.
OldRaw == OpenWrite(NoFile, ScenarioDoc)
OldCsv == OpenWrite(NoFile, CsvText(CleanTable(ExtractRows(ScenarioDoc).rows).df))

\* ------------------------------------------------------------------- Init
\* A run starts: no data folder yet, an empty one, or one an earlier run filled.
Init ==
    /\ pc = "makedirs"
    /\ apiDoc \in SampleDocs
    /\ resp = "none"
    /\ raw = <<>>
    /\ rows = <<>>
    /\ df = NoFrame
    /\ error = "none"
    /\ \E start \in {<<FALSE, NoFile, NoFile>>, <<TRUE, NoFile, NoFile>>,
                     <<TRUE, OldRaw, OldCsv>>} :
          /\ dirExists = start[1]
          /\ rawFile = start[2]
          /\ csvFile = start[3]
          /\ startRaw = start[2]
          /\ startCsv = start[3]
    /\ log = <<>>
    /\ written = {}
    /\ prev = NoPrev

\* A run at line 71: the response decoded and saved, the clean CSV not there
\* yet or left by an earlier run.
InitTransform ==
    /\ pc = "extract"
    /\ apiDoc \in Docs(MaxLen)
    /\ resp = "ok"
    /\ raw = <<apiDoc>>
    /\ rows = <<>>
    /\ df = NoFrame
    /\ error = "none"
    /\ dirExists = TRUE
    /\ rawFile = OpenWrite(NoFile, apiDoc)
    /\ csvFile \in {NoFile, OldCsv}
    /\ startRaw = NoFile
    /\ startCsv = csvFile
    /\ log = <<"makedirs", "get", "save_raw">>
    /\ written = {"raw"}
    /\ prev = NoPrev

\* ---------------------------------------------------------------- actions
\* line 42: os.makedirs(DATA_DIR, exist_ok=True); it can only fail when the
\* folder is not there yet.
MakeDirs ==
    /\ pc = "makedirs"
    /\ log' = Append(log, "makedirs")
    /\ \E ok \in BOOLEAN :
          IF ok \/ dirExists
              THEN /\ dirExists' = TRUE
                   /\ pc' = StepAfter("makedirs")
                   /\ error' = error
              ELSE /\ dirExists' = dirExists
                   /\ pc' = "aborted"
                   /\ error' = "OSError"
    /\ UNCHANGED <<apiDoc, resp, raw, rows, df, rawFile, csvFile, written,
                   startRaw, startCsv, prev>>

\* lines 49-55: requests.get, raise_for_status, resp.json().
Fetch ==
    /\ pc = "get"
    /\ log' = Append(log, "get")
    /\ \E outcome \in FetchOutcomes :
          /\ resp' = outcome
          /\ IF \/ outcome = "ConnectionError"
                \/ RaiseForStatus(outcome)
                \/ outcome = "JSONDecodeError"
                THEN /\ pc' = "aborted"
                     /\ error' = outcome
                     /\ raw' = raw
                ELSE /\ pc' = StepAfter("get")
                     /\ error' = error
                     /\ raw' = <<Body(outcome)>>
    /\ UNCHANGED <<apiDoc, rows, df, dirExists, rawFile, csvFile, written,
                   startRaw, startCsv, prev>>

FsOutcomes == {"ok", "open_fails", "write_fails"}

\* lines 59-64: open(raw_path, "w") and json.dump(raw, f, indent=2). A failed
\* open leaves the file alone; a write that fails leaves it truncated.
SaveRaw ==
    /\ pc = "save_raw"
    /\ log' = Append(log, "save_raw")
    /\ \E res \in FsOutcomes :
          CASE res = "ok" ->
                 /\ rawFile' = OpenWrite(rawFile, raw[1])
                 /\ written' = written \cup {"raw"}
                 /\ pc' = StepAfter("save_raw")
                 /\ error' = error
            [] res = "open_fails" ->
                 /\ rawFile' = rawFile
                 /\ written' = written
                 /\ pc' = "aborted"
                 /\ error' = "OSError"
            [] OTHER ->
                 /\ rawFile' = Truncated
                 /\ written' = written
                 /\ pc' = "aborted"
                 /\ error' = "OSError"
    /\ UNCHANGED <<apiDoc, resp, raw, rows, df, dirExists, csvFile,
                   startRaw, startCsv, prev>>

\* lines 71-93: the extraction and the row loop.
Extract ==
    /\ pc = "extract"
    /\ log' = Append(log, "extract")
    /\ LET r == ExtractRows(raw[1])
       IN  /\ rows' = r.rows
           /\ error' = r.error
           /\ pc' = IF r.error = "none" THEN StepAfter("extract") ELSE "aborted"
    /\ UNCHANGED <<apiDoc, resp, raw, df, dirExists, rawFile, csvFile, written,
                   startRaw, startCsv, prev>>

\* lines 96-99: DataFrame(rows).dropna().sort_values("timestamp").
Clean ==
    /\ pc = "clean"
    /\ log' = Append(log, "clean")
    /\ LET r == CleanTable(rows)
       IN  /\ df' = IF r.error = "none" THEN r.df ELSE df
           /\ error' = r.error
           /\ pc' = IF r.error = "none" THEN StepAfter("clean") ELSE "aborted"
    /\ UNCHANGED <<apiDoc, resp, raw, rows, dirExists, rawFile, csvFile, written,
                   startRaw, startCsv, prev>>

\* lines 102-103: df.to_csv(clean_path, index=False).
SaveCsv ==
    /\ pc = "save_csv"
    /\ log' = Append(log, "save_csv")
    /\ \E res \in FsOutcomes :
          CASE res = "ok" ->
                 /\ csvFile' = OpenWrite(csvFile, CsvText(df))
                 /\ written' = written \cup {"csv"}
                 /\ pc' = StepAfter("save_csv")
                 /\ error' = error
            [] res = "open_fails" ->
                 /\ csvFile' = csvFile
                 /\ written' = written
                 /\ pc' = "aborted"
                 /\ error' = "OSError"
            [] OTHER ->
                 /\ csvFile' = Truncated
                 /\ written' = written
                 /\ pc' = "aborted"
                 /\ error' = "OSError"
    /\ UNCHANGED <<apiDoc, resp, raw, rows, df, dirExists, rawFile,
                   startRaw, startCsv, prev>>

\* The script is started again: every module-level name is rebuilt, the files
\* stay as the last run left them.
NewRun ==
    /\ pc \in {"done", "aborted"}
    /\ pc' = "makedirs"
    /\ resp' = "none"
    /\ raw' = <<>>
    /\ rows' = <<>>
    /\ df' = NoFrame
    /\ error' = "none"
    /\ log' = <<>>
    /\ written' = {}
    /\ startRaw' = rawFile
    /\ startCsv' = csvFile
    /\ prev' = [ran |-> TRUE, resp |-> resp, fsError |-> error = "OSError"]
    /\ UNCHANGED <<apiDoc, dirExists, rawFile, csvFile>>

Next == MakeDirs \/ Fetch \/ SaveRaw \/ Extract \/ Clean \/ SaveCsv \/ NewRun

Spec == Init /\ [][Next]_vars

NextTransform == Extract \/ Clean \/ SaveCsv

SpecTransform == InitTransform /\ [][NextTransform]_vars

\* ================================================================ claims
Ended == pc \in {"done", "aborted"}
Times == HourlyGet(raw[1], "time")
Temps == HourlyGet(raw[1], "temperature_2m")
Precip == HourlyGet(raw[1], "precipitation")
Wind == HourlyGet(raw[1], "wind_speed_10m")
\* The data rows of the clean CSV a finished run wrote.
Table == csvFile.body[1].rows
HeaderOnly == [header |-> Columns, rows |-> <<>>]
NetworkErrors == {"ConnectionError", "HTTPError"}
TransformErrors == {"IndexError", "TypeError", "ValueError", "KeyError"}
Parses(s) == s \in {T0, T1}
Count(seq, x) == Cardinality({k \in 1..Len(seq) : seq[k] = x})
Abs(x) == IF x < 0 THEN -x ELSE x

\* C1: a run whose GET fails or returns an error status aborts, and neither
\* output file is written or modified by it: both are as the run found them.
C1_FailedFetchWritesNothing ==
    resp \in NetworkErrors =>
        /\ pc = "aborted"
        /\ written = {}
        /\ rawFile = startRaw
        /\ csvFile = startCsv

\* C1 witness: an HTTP error status in a run that found an earlier run's files.
C1_Witness ==
    /\ resp = "HTTPError"
    /\ pc = "aborted"
    /\ startRaw = OldRaw
    /\ rawFile = OldRaw
    /\ csvFile = OldCsv

\* C2 as stated, for two of the errors it names (the coercion error of a
\* non-numeric string, a filesystem error): a run that aborts on one has
\* written no output file.
C2_NoPartialOutput ==
    (pc = "aborted" /\ error \in {"ValueError", "OSError"}) => written = {}

\* C2 amended: a run that aborts has not written the clean CSV; on a network
\* error it has written neither file and both are as it found them; on an
\* error of the transform (coercion, index, key, sort) the raw JSON of this
\* run is already written and the clean CSV is as the run found it.
C2_AbortLeavesRawOnly ==
    pc = "aborted" =>
        /\ "csv" \notin written
        /\ error \in NetworkErrors =>
              (written = {} /\ rawFile = startRaw /\ csvFile = startCsv)
        /\ error \in TransformErrors =>
              (written = {"raw"} /\ rawFile.body = <<raw[1]>> /\ csvFile = startCsv)

\* C2 witness: a coercion error (a non-numeric string) after the raw write.
C2_Witness ==
    /\ pc = "aborted"
    /\ error = "ValueError"
    /\ written = {"raw"}
    /\ rawFile.body = <<apiDoc>>

\* C3: with no time entries (no "hourly", no "time", or an empty list) the run
\* ends successfully and the clean CSV holds the header line only.
C3_ZeroRowsHeaderOnly ==
    (Ended /\ Len(Times) = 0) =>
        /\ error \in {"none", "OSError"}
        /\ pc = "done" => csvFile.body = <<HeaderOnly>>

\* C4: a time entry that does not parse never aborts the run when the numeric
\* fields are valid: the run reaches the final write and the clean table keeps
\* the row, its timestamp the original string.
C4_BadTimeKept ==
    ( /\ Ended
      /\ \E i \in 1..Len(Times) : ~Parses(Times[i])
      /\ \A s \in {Temps, Precip, Wind} :
            Len(s) = Len(Times) /\ \A i \in 1..Len(s) : s[i].kind = "num" ) =>
        /\ error \in {"none", "OSError"}
        /\ pc = "done" =>
              \A i \in 1..Len(Times) :
                  ~Parses(Times[i]) =>
                      \E k \in 1..Len(Table) :
                          /\ Table[k].timestamp.kind = "str"
                          /\ Table[k].timestamp.text = Times[i]

Lengths == {Len(Times), Len(Temps), Len(Precip), Len(Wind)}
Shortest == CHOOSE n \in Lengths : \A m \in Lengths : n <= m
Unequal == Cardinality(Lengths) > 1
LoopDone == pc \in {"clean", "save_csv", "done"}
\* rows[k] is the row of index k of the response.
RowOfIndex(row, k) ==
    /\ row.timestamp.kind = IF Parses(Times[k]) THEN "datetime" ELSE "str"
    /\ Parses(Times[k]) => row.timestamp.minute = IsoMinute[Times[k]]
    /\ ~Parses(Times[k]) => row.timestamp.text = Times[k]
    /\ Temps[k].kind = "num" => Abs(row.temperature_c.v - Temps[k].v) <= 5
    /\ Abs(row.precipitation_mm.v - Precip[k].v) <= 5
    /\ Abs(row.wind_speed_mps.v - Wind[k].v) <= 5

\* C5 as stated: with sequences of unequal lengths the run does not abort on
\* the mismatch and exactly the indexes below the shortest length become rows.
C5_ShortestOverlap ==
    (Unequal /\ pc # "extract") =>
        /\ error # "IndexError"
        /\ LoopDone => Len(rows) = Shortest

\* C5 amended: the time sequence alone bounds the loop. With unequal lengths,
\* when no numeric sequence is shorter than the time sequence exactly the
\* indexes of the time sequence become rows, index by index, and entries
\* beyond it are ignored without an index error; when a numeric sequence is
\* shorter than the time sequence the run aborts in the loop and the clean CSV
\* is not written.
C5_TimeBoundsLoop ==
    (Unequal /\ pc # "extract") =>
        IF Shortest = Len(Times)
            THEN /\ error # "IndexError"
                 /\ LoopDone =>
                       /\ Len(rows) = Len(Times)
                       /\ \A k \in 1..Len(rows) : RowOfIndex(rows[k], k)
            ELSE /\ pc = "aborted"
                 /\ error \in {"IndexError", "TypeError", "ValueError"}
                 /\ "csv" \notin written
                 /\ csvFile = startCsv

\* C5 witness: a finished run whose numeric sequences are longer than the
\* time sequence.
C5_Witness ==
    /\ pc = "done"
    /\ Len(Times) = 1
    /\ Len(Temps) = 2
    /\ Len(Precip) = 2
    /\ Len(Table) = 1

\* a <= b for two timestamps of the table (datetimes by time, strings by text).
TsLeq(a, b) ==
    /\ a.kind = b.kind
    /\ a.kind = "datetime" => a.minute <= b.minute
    /\ a.kind = "str" => StrRank(a.text) <= StrRank(b.text)

\* C6: the rows of the clean table a finished run wrote are in non-decreasing
\* timestamp order, whatever the order of the response.
C6_SortedByTimestamp ==
    pc = "done" =>
        \A i, j \in 1..Len(Table) :
            i < j => TsLeq(Table[i].timestamp, Table[j].timestamp)

\* C6 witness: two rows written from a response whose times are in
\* decreasing order.
C6_Witness ==
    /\ pc = "done"
    /\ Times = <<T1, T0>>
    /\ Len(Table) = 2
    /\ Table[1].timestamp.minute = 0
    /\ Table[2].timestamp.minute = 60

Aligned == Cardinality(Lengths) = 1
\* cell is the source value x rounded to 2 decimal places.
Rounded(cell, x) ==
    /\ x.kind = "num"
    /\ ~cell.nan
    /\ cell.v % 10 = 0
    /\ Abs(cell.v - x.v) <= 5
FromIndex(row, i) ==
    /\ row.timestamp.kind = IF Parses(Times[i]) THEN "datetime" ELSE "str"
    /\ Parses(Times[i]) => row.timestamp.minute = IsoMinute[Times[i]]
    /\ ~Parses(Times[i]) => row.timestamp.text = Times[i]
    /\ Rounded(row.temperature_c, Temps[i])
    /\ Rounded(row.precipitation_mm, Precip[i])
    /\ Rounded(row.wind_speed_mps, Wind[i])

\* C7: for a response with N index-aligned entries the clean table has at
\* most N rows, and every row comes from one source index i, its three
\* numbers the source values at i rounded to 2 decimal places.
C7_RowsFromOneIndex ==
    (pc = "done" /\ Aligned) =>
        /\ Len(Table) <= Len(Times)
        /\ \A k \in 1..Len(Table) : \E i \in 1..Len(Times) : FromIndex(Table[k], i)

\* C7 witness: two aligned entries written as two rows, 3.333 rounded to 3.33.
C7_Witness ==
    /\ pc = "done"
    /\ Aligned
    /\ Len(Times) = 2
    /\ Len(Table) = 2
    /\ \E k \in 1..2 : Table[k].wind_speed_mps.v = 3330

\* C8: a run that gets the same response as the run before it (neither hit by
\* a filesystem failure) leaves both files with exactly the content they had
\* after that run; a finished run leaves in each file the one document of its
\* own response, nothing of what was there before.
C8_SameResponseSameFiles ==
    /\ (Ended /\ prev.ran /\ prev.resp = resp /\ ~prev.fsError /\ error # "OSError") =>
          (rawFile = startRaw /\ csvFile = startCsv)
    /\ pc = "done" =>
          /\ rawFile.body = <<raw[1]>>
          /\ Len(csvFile.body) = 1
          /\ csvFile.body[1].rows = df.rows

\* C8 witness: a second finished run on the same response.
C8_Witness ==
    /\ pc = "done"
    /\ prev.ran
    /\ prev.resp = "ok"
    /\ ~prev.fsError
    /\ startCsv.exists
    /\ startCsv = csvFile
    /\ startRaw = rawFile

\* C9: a null numeric value at some index does not stop the run: the run
\* ends without an error of its own and the clean table is exactly the rows
\* whose fields are all non-null.
C9_NullRowsDropped ==
    ( /\ Ended
      /\ Aligned
      /\ \A i \in 1..Len(Times) : Parses(Times[i])
      /\ \A i \in 1..Len(Temps) : Temps[i].kind \in {"num", "null"}
      /\ \E i \in 1..Len(Temps) : Temps[i].kind = "null"
      /\ \E i \in 1..Len(Temps) : Temps[i].kind = "num" ) =>
        /\ error \in {"none", "OSError"}
        /\ pc = "done" =>
              Len(Table) = Cardinality({i \in 1..Len(Temps) : Temps[i].kind = "num"})

\* C10 as stated, its count of requests: every run issues exactly one.
C10_ExactlyOneRequest == Ended => Count(log, "get") = 1

\* C10 amended: in every run the statements happen at most once each and in
\* the order makedirs, GET, raw write, transform, CSV write; the folder exists
\* before either write; no run issues a second request, also after a failure,
\* and every run that got past makedirs has issued exactly one; the clean CSV
\* is written only after the raw JSON of the same run.
C10_StepsOnceInOrder ==
    /\ Len(log) <= Len(StepOrder)
    /\ \A k \in 1..Len(log) : log[k] = StepOrder[k]
    /\ Count(log, "get") <= 1
    /\ (Ended /\ ~(error = "OSError" /\ log = <<"makedirs">>)) => Count(log, "get") = 1
    /\ (Count(log, "save_raw") + Count(log, "save_csv") > 0) =>
          (dirExists /\ log[1] = "makedirs")
    /\ "csv" \in written => "raw" \in written
    /\ Count(log, "save_csv") > 0 => (Count(log, "save_raw") = 1 /\ "raw" \in written)

\* C10 witness: a finished run, every statement once.
C10_Witness ==
    /\ pc = "done"
    /\ log = StepOrder
    /\ written = {"raw", "csv"}

====
